---- MODULE Spec2Model ----
(***************************************************************************)
(* bao: a git-push deployment agent (src/bao.py).                          *)
(*                                                                         *)
(* The model follows one CLI invocation per app at a time through the      *)
(* statements of cmd_git_receive_pack, cmd_git_hook, deploy_app and        *)
(* remove_app.  Invocations for different apps interleave statement by     *)
(* statement.  The filesystem under /home/bao, the process supervisor      *)
(* (systemd --user) and the reverse proxy (caddy) are the shared state.    *)
(*                                                                         *)
(* Specifications: Spec (all apps, every input), SpecSolo (one app),       *)
(* SpecPair (all apps, pushes of one valid revision), ParseSpec            *)
(* (parse_procfile applied to a text) and KeysSpec (init_ssh_access        *)
(* applied to an authorized_keys file).                                    *)
(***************************************************************************)
EXTENDS Integers, Sequences, FiniteSets, TLC

\* ------------------------------------------------------------------ bounds
Apps == {"a", "b"}
MaxPort == 2
MaxOps == 3
MaxLines == 2

Ports == 1..MaxPort
NoPort == 0
NoRev == 0
NoTarget == "-"

\* ------------------------------------------------------- pushed source trees
\* A line of a process declaration is a sequence of tokens; the first token of
\* a web line is "web:", the rest is the command.
GoodProcfile == << <<"web:", "python", "app.py", "$PORT">> >>
NoWebProcfile == << <<"worker:", "python", "job.py">> >>
NotPythonProcfile == << <<"web:", "node", "app.js", "$PORT">> >>
NoPortProcfile == << <<"web:", "python", "app.py">> >>

\* bao.toml [apps.<name>] domain: the public hostname of each app.
Domain == [a \in Apps |-> "example.com"]
MovedDomain == [a \in Apps |-> "example.org"]

GoodTree ==
    [bao |-> TRUE, pyproject |-> TRUE, apps |-> Apps, domain |-> Domain,
     hasProcfile |-> TRUE, procfile |-> GoodProcfile, pkgjson |-> FALSE]

\* The revisions that can be pushed, each with the tree it checks out.
Trees ==
    << GoodTree,
       [GoodTree EXCEPT !.pkgjson = TRUE, !.domain = MovedDomain],
       [GoodTree EXCEPT !.bao = FALSE],
       [GoodTree EXCEPT !.pyproject = FALSE],
       [GoodTree EXCEPT !.apps = {}],
       [GoodTree EXCEPT !.hasProcfile = FALSE, !.procfile = << >>],
       [GoodTree EXCEPT !.procfile = NoWebProcfile],
       [GoodTree EXCEPT !.procfile = NotPythonProcfile],
       [GoodTree EXCEPT !.procfile = NoPortProcfile] >>

Revs == DOMAIN Trees

\* ------------------------------------------------------------------- state
VARIABLES
    appDir,       \* apps/<app>/ exists
    repo,         \* apps/<app>/repo is a bare repository
    hookFile,     \* apps/<app>/repo/hooks/post-receive exists
    code,         \* revision checked out in apps/<app>/code (NoRev: no working tree)
    unitFile,     \* apps/<app>/<app>.service
    routeFile,    \* apps/<app>/Caddyfile
    unitPtr,      \* systemdfiles/<app>.service -> apps/<target>/<target>.service
    routePtr,     \* caddyfiles/<app> -> apps/<target>/Caddyfile
    running,      \* port the supervisor's instance of the app was started with
    bound,        \* that instance has bound its port
    proxyLoaded,  \* port the proxy's loaded configuration routes the app to
    pc,           \* statement the app's current invocation is at
    cmd,          \* CLI command of the current (or last) invocation
    raised,       \* exception propagating out of the handler
    failedAt,     \* statement that raised it
    exitStatus,   \* exit status of the last finished invocation
    newrev,       \* cmd_git_hook: newrev parsed from stdin
    warned,       \* cmd_git_hook: the unhandled-input message was printed
    web_cmd,      \* deploy_app: procfile.web_cmd
    app_port,     \* deploy_app: app_port
    calls,        \* supervisor and proxy commands the invocation has run
    pre,          \* the app's on-disk and serving state when the invocation began
    ops,          \* invocations started so far
    procText,     \* parse_procfile: the text it is called with, as its lines
    procfile,     \* parse_procfile: what the call returned or raised
    authorized_keys,  \* init_ssh_access: text of /home/bao/.ssh/authorized_keys
    keysLog       \* init_ssh_access: the texts its runs so far have read

fsVars == <<appDir, repo, hookFile, code, unitFile, routeFile, unitPtr, routePtr>>
extVars == <<running, bound, proxyLoaded>>
localVars == <<newrev, warned, web_cmd, app_port>>
histVars == <<cmd, pre>>
parseVars == <<procText, procfile>>
keysVars == <<authorized_keys, keysLog>>
vars == <<fsVars, extVars, pc, raised, failedAt, exitStatus, localVars, calls, histVars, ops,
          parseVars, keysVars>>

NoFile == [st |-> "absent", port |-> NoPort, cmd |-> << >>, domain |-> ""]
Truncated == [st |-> "partial", port |-> NoPort, cmd |-> << >>, domain |-> ""]

Range(s) == {s[i] : i \in DOMAIN s}

\* What the app owns on disk and how it is served.
StateOf(a) ==
    [appDir |-> appDir[a], repo |-> repo[a], code |-> code[a],
     unitFile |-> unitFile[a], routeFile |-> routeFile[a],
     unitPtr |-> unitPtr[a], routePtr |-> routePtr[a],
     running |-> running[a], proxyLoaded |-> proxyLoaded[a]]

\* No call of parse_procfile or init_ssh_access is being followed.
NotParsed == [exc |-> "pending", web_cmd |-> << >>]
NoDirectCall ==
    /\ procText = << >> /\ procfile = NotParsed
    /\ authorized_keys = << >> /\ keysLog = << >>

HostInit ==
    /\ appDir = [a \in Apps |-> FALSE]
    /\ repo = [a \in Apps |-> FALSE]
    /\ hookFile = [a \in Apps |-> FALSE]
    /\ code = [a \in Apps |-> NoRev]
    /\ unitFile = [a \in Apps |-> NoFile]
    /\ routeFile = [a \in Apps |-> NoFile]
    /\ unitPtr = [a \in Apps |-> NoTarget]
    /\ routePtr = [a \in Apps |-> NoTarget]
    /\ running = [a \in Apps |-> NoPort]
    /\ bound = [a \in Apps |-> FALSE]
    /\ proxyLoaded = [a \in Apps |-> NoPort]
    /\ pc = [a \in Apps |-> "idle"]
    /\ cmd = [a \in Apps |-> "none"]
    /\ raised = [a \in Apps |-> "none"]
    /\ failedAt = [a \in Apps |-> "none"]
    /\ exitStatus = [a \in Apps |-> 0]
    /\ newrev = [a \in Apps |-> NoRev]
    /\ warned = [a \in Apps |-> FALSE]
    /\ web_cmd = [a \in Apps |-> << >>]
    /\ app_port = [a \in Apps |-> NoPort]
    /\ calls = [a \in Apps |-> << >>]
    /\ pre = [a \in Apps |-> StateOf(a)]
    /\ ops = 0

Init == HostInit /\ NoDirectCall

\* ----------------------------------------------------------- control flow
Goto(a, l) == pc' = [pc EXCEPT ![a] = l]

\* An exception leaves the handler and reaches the try block of __main__.
Raise(a, exc) ==
    /\ raised' = [raised EXCEPT ![a] = exc]
    /\ failedAt' = [failedAt EXCEPT ![a] = pc[a]]
    /\ Goto(a, "except")

NoRaise == UNCHANGED <<raised, failedAt>>

\* subprocess.run(argv, check=True) of a supervisor or proxy command.
Call(a, name) == calls' = [calls EXCEPT ![a] = Append(@, name)]

\* The process has ended and its exit status can be read.
Finished(a) == pc[a] = "exited"

\* A process `bao.py <command> <app>` begins at the first statement of its handler.
Launch(a, c, first) ==
    /\ cmd' = [cmd EXCEPT ![a] = c]
    /\ pre' = [pre EXCEPT ![a] = StateOf(a)]
    /\ raised' = [raised EXCEPT ![a] = "none"]
    /\ failedAt' = [failedAt EXCEPT ![a] = "none"]
    /\ calls' = [calls EXCEPT ![a] = << >>]
    /\ newrev' = [newrev EXCEPT ![a] = NoRev]
    /\ warned' = [warned EXCEPT ![a] = FALSE]
    /\ web_cmd' = [web_cmd EXCEPT ![a] = << >>]
    /\ app_port' = [app_port EXCEPT ![a] = NoPort]
    /\ Goto(a, first)
    /\ UNCHANGED <<fsVars, extVars, exitStatus, parseVars, keysVars>>

\* An ssh client (a git push, or an admin's `del`) starts a command for the app.
Start(a, c, first) ==
    /\ pc[a] = "idle"
    /\ ops < MaxOps
    /\ ops' = ops + 1
    /\ Launch(a, c, first)

\* __main__: args.handle(args) returned.
MainReturn(a) ==
    /\ pc[a] = "return"
    /\ exitStatus' = [exitStatus EXCEPT ![a] = 0]
    /\ Goto(a, "exited")
    /\ UNCHANGED <<fsVars, extVars, raised, failedAt, localVars, calls, histVars, ops,
                   parseVars, keysVars>>

\* __main__: the bare `except:` catches every exception, SystemExit included,
\* logs it, and the script runs off its end.
MainExcept(a) ==
    /\ pc[a] = "except"
    /\ exitStatus' = [exitStatus EXCEPT ![a] = 0]
    /\ Goto(a, "exited")
    /\ UNCHANGED <<fsVars, extVars, raised, failedAt, localVars, calls, histVars, ops,
                   parseVars, keysVars>>

\* The ended process is reaped: nothing of it remains but what it left on disk
\* and in the supervisor and the proxy.
Reap(a) ==
    /\ pc[a] = "exited"
    /\ Goto(a, "idle")
    /\ cmd' = [cmd EXCEPT ![a] = "none"]
    /\ pre' = [pre EXCEPT ![a] = StateOf(a)]
    /\ raised' = [raised EXCEPT ![a] = "none"]
    /\ failedAt' = [failedAt EXCEPT ![a] = "none"]
    /\ exitStatus' = [exitStatus EXCEPT ![a] = 0]
    /\ calls' = [calls EXCEPT ![a] = << >>]
    /\ newrev' = [newrev EXCEPT ![a] = NoRev]
    /\ warned' = [warned EXCEPT ![a] = FALSE]
    /\ web_cmd' = [web_cmd EXCEPT ![a] = << >>]
    /\ app_port' = [app_port EXCEPT ![a] = NoPort]
    /\ UNCHANGED <<fsVars, extVars, ops,
                   parseVars, keysVars>>

\* ------------------------------------------------- cmd_git_receive_pack
StartReceivePack(a) == Start(a, "git-receive-pack", "rp_mkdir")

\* app_path.mkdir(exist_ok=True)
ReceivePackMkdir(a) ==
    /\ pc[a] = "rp_mkdir"
    /\ appDir' = [appDir EXCEPT ![a] = TRUE]
    /\ Goto(a, "rp_init")
    /\ NoRaise
    /\ UNCHANGED <<repo, hookFile, code, unitFile, routeFile, unitPtr, routePtr,
                   extVars, exitStatus, localVars, calls, histVars, ops,
                   parseVars, keysVars>>

\* if not repo_path.is_dir(): git init --bare (check=True)
ReceivePackInit(a) ==
    /\ pc[a] = "rp_init"
    /\ \/ /\ repo[a]
          /\ Goto(a, "rp_hook") /\ NoRaise
          /\ UNCHANGED repo
       \/ /\ ~repo[a]
          /\ repo' = [repo EXCEPT ![a] = TRUE]
          /\ Goto(a, "rp_hook") /\ NoRaise
       \/ /\ ~repo[a]
          /\ Raise(a, "CalledProcessError")
          /\ UNCHANGED repo
    /\ UNCHANGED <<appDir, hookFile, code, unitFile, routeFile, unitPtr, routePtr,
                   extVars, exitStatus, localVars, calls, histVars, ops,
                   parseVars, keysVars>>

\* if not git_hook_path.is_file(): write the post-receive script, chmod +x
ReceivePackHook(a) ==
    /\ pc[a] = "rp_hook"
    /\ hookFile' = [hookFile EXCEPT ![a] = TRUE]
    /\ Goto(a, "rp_receive")
    /\ NoRaise
    /\ UNCHANGED <<appDir, repo, code, unitFile, routeFile, unitPtr, routePtr,
                   extVars, exitStatus, localVars, calls, histVars, ops,
                   parseVars, keysVars>>

\* git shell -c "git receive-pack 'repo'" (check=True) ends without running
\* the hook: nothing was updated (exit 0), or the push was refused.
ReceivePackRun(a) ==
    /\ pc[a] = "rp_receive"
    /\ \/ Goto(a, "return") /\ NoRaise
       \/ Raise(a, "CalledProcessError")
    /\ UNCHANGED <<fsVars, extVars, exitStatus, localVars, calls, histVars, ops,
                   parseVars, keysVars>>

\* --------------------------------------------------------- cmd_git_hook
\* git receive-pack has updated a ref and runs the installed post-receive
\* script, which pipes its stdin to a new process `bao.py git-hook <app>`.  The
\* receive-pack process does nothing more once the hook has ended.
StartGitHook(a) ==
    /\ pc[a] = "rp_receive"
    /\ hookFile[a]
    /\ Launch(a, "git-hook", "h_stdin")
    /\ UNCHANGED ops

\* lines = list(sys.stdin); the message for len(lines) != 1; lines[0] is split
\* into oldrev, newrev, refname.  n is the number of lines, r the newrev of
\* the first.
HookReadStdinFrom(a, counts, revs) ==
    /\ pc[a] = "h_stdin"
    /\ \E n \in counts, r \in revs :
          /\ warned' = [warned EXCEPT ![a] = (n # 1)]
          /\ IF n = 0
             THEN /\ Raise(a, "IndexError")
                  /\ UNCHANGED newrev
             ELSE /\ newrev' = [newrev EXCEPT ![a] = r]
                  /\ Goto(a, "h_clone") /\ NoRaise
    /\ UNCHANGED <<fsVars, extVars, exitStatus, web_cmd, app_port, calls, histVars, ops,
                   parseVars, keysVars>>

\* The hook is handed any number of lines, naming any pushed revision.
HookReadStdin(a) == HookReadStdinFrom(a, 0..MaxLines, Revs)

\* git clone repo code (check=False): creates the working tree when there is
\* none, at the head of the pushed branch; fails otherwise.
HookClone(a) ==
    /\ pc[a] = "h_clone"
    /\ \/ /\ code[a] = NoRev
          /\ code' = [code EXCEPT ![a] = newrev[a]]
       \/ UNCHANGED code
    /\ Goto(a, "h_fetch")
    /\ NoRaise
    /\ UNCHANGED <<appDir, repo, hookFile, unitFile, routeFile, unitPtr, routePtr,
                   extVars, exitStatus, localVars, calls, histVars, ops,
                   parseVars, keysVars>>

\* ls -la and git fetch with cwd=code_path: subprocess.run raises
\* FileNotFoundError when the directory does not exist.
HookFetch(a) ==
    /\ pc[a] = "h_fetch"
    /\ IF code[a] = NoRev
       THEN Raise(a, "FileNotFoundError")
       ELSE Goto(a, "h_reset") /\ NoRaise
    /\ UNCHANGED <<fsVars, extVars, exitStatus, localVars, calls, histVars, ops,
                   parseVars, keysVars>>

\* git reset --hard newrev: the exit status is not checked.
HookReset(a) ==
    /\ pc[a] = "h_reset"
    /\ \/ code' = [code EXCEPT ![a] = newrev[a]]
       \/ UNCHANGED code
    /\ Goto(a, "d_bao")
    /\ NoRaise
    /\ UNCHANGED <<appDir, repo, hookFile, unitFile, routeFile, unitPtr, routePtr,
                   extVars, exitStatus, localVars, calls, histVars, ops,
                   parseVars, keysVars>>

\* -------------------------------------------------------- parse_procfile
StartsWithWeb(line) == Len(line) > 0 /\ line[1] = "web:"

NoWebCmd == [none |-> TRUE, cmd |-> << >>]

\* The loop over content.splitlines(): web_cmd is None until a line starts
\* with "web:", and every such line overwrites it with what follows the colon.
RECURSIVE ScanLines(_, _)
ScanLines(lines, acc) ==
    IF lines = << >> THEN acc
    ELSE ScanLines(Tail(lines),
                   IF StartsWithWeb(Head(lines))
                   THEN [none |-> FALSE, cmd |-> Tail(Head(lines))]
                   ELSE acc)

StartsWithPython(c) == Len(c) > 0 /\ c[1] = "python"

\* Mutant: the scan stops at the first web: line.
ParseFirstWebLine(content) ==
    LET webs == {i \in DOMAIN content : StartsWithWeb(content[i])}
        w == IF webs = {} THEN NoWebCmd
             ELSE [none |-> FALSE,
                   cmd |-> Tail(content[CHOOSE i \in webs : \A j \in webs : i <= j])] IN
    IF w.none THEN [exc |-> "AttributeError", web_cmd |-> << >>]
    ELSE IF ~StartsWithPython(w.cmd) THEN [exc |-> "SystemExit", web_cmd |-> << >>]
    ELSE IF "$PORT" \notin Range(w.cmd) THEN [exc |-> "SystemExit", web_cmd |-> << >>]
    ELSE [exc |-> "none", web_cmd |-> w.cmd]

\* parse_procfile(content): the exception it raises ("none" when it returns)
\* and the web_cmd of the Procfile it returns.
parse_procfile(content) ==
    LET w == ScanLines(content, NoWebCmd) IN
    IF w.none THEN [exc |-> "AttributeError", web_cmd |-> << >>]
    ELSE IF ~StartsWithPython(w.cmd) THEN [exc |-> "SystemExit", web_cmd |-> << >>]
    ELSE IF "$PORT" \notin Range(w.cmd) THEN [exc |-> "SystemExit", web_cmd |-> << >>]
    ELSE [exc |-> "none", web_cmd |-> w.cmd]

\* ------------------------------------------------ rendering and externals
\* web_cmd.replace("$PORT", str(app_port))
ReplacePort(c, p) == [i \in DOMAIN c |-> IF c[i] = "$PORT" THEN ToString(p) ELSE c[i]]

\* get_systemctl_config: the unit text, of which ExecStart is kept.
get_systemctl_config(c) == [st |-> "full", port |-> NoPort, cmd |-> c, domain |-> ""]

\* Mutant: the {domain} placeholder of the route template is left unreplaced.
CaddyfileWithoutDomain(d, p) == [st |-> "full", port |-> p, cmd |-> << >>, domain |-> "{domain}"]

\* get_app_caddyfile_config: the route text, of which the site address and the
\* reverse_proxy port are kept.
get_app_caddyfile_config(d, p) == [st |-> "full", port |-> p, cmd |-> << >>, domain |-> d]

\* The port an instance started with ExecStart command c listens on.
ListenPort(c) ==
    IF \E p \in Ports : ToString(p) \in Range(c)
    THEN CHOOSE p \in Ports : ToString(p) \in Range(c)
    ELSE NoPort

\* Mutant: a port is drawn without asking the OS whether it is in use.
AnyPort == Ports

\* Ports no running instance has bound: what bind(("", 0)) can return.
FreePorts == {p \in Ports : \A n \in Apps : ~(bound[n] /\ running[n] = p)}

\* Path.is_file() on a scan-directory entry follows the symlink: False for a
\* missing entry and for a symlink whose target does not exist.
IsFile(ptr, files) == ptr # NoTarget /\ files[ptr].st # "absent"

\* What `systemctl reload caddy` loads: for each entry of caddyfiles/ the
\* route of the file it resolves to.
LoadedRoutes ==
    [n \in Apps |->
        IF IsFile(routePtr[n], routeFile) /\ routeFile[routePtr[n]].st = "full"
        THEN routeFile[routePtr[n]].port
        ELSE NoPort]

\* The unit file the supervisor has linked for the app, NoFile if none.
LinkedUnit(a) == IF unitPtr[a] = NoTarget THEN NoFile ELSE unitFile[unitPtr[a]]

\* ------------------------------------------------------------ deploy_app
\* The tree deploy_app reads under apps/<app>/code.
HasTree(a) == code[a] # NoRev
Tree(a) == Trees[code[a]]

\* Statements of deploy_app that only read and validate: the Config Parser ...
ConfigStage == {"d_bao", "d_pyproject", "d_manifest", "d_procfile", "d_parse"}
\* ... and the Environment Provisioner.
ProvisionStage == {"d_poetry", "d_python", "d_yarn"}

\* A check of the form `if not <cond>: logger.info(...); sys.exit(1)`.
CheckOrExit(a, cond, next) ==
    /\ IF cond THEN Goto(a, next) /\ NoRaise ELSE Raise(a, "SystemExit")
    /\ UNCHANGED <<fsVars, extVars, exitStatus, localVars, calls, histVars, ops,
                   parseVars, keysVars>>

\* if not (app_code_path / "bao.toml").exists(): sys.exit(1)
DeployCheckBao(a) ==
    /\ pc[a] = "d_bao"
    /\ CheckOrExit(a, HasTree(a) /\ Tree(a).bao, "d_pyproject")

\* if not (app_code_path / "pyproject.toml").exists(): sys.exit(1)
DeployCheckPyproject(a) ==
    /\ pc[a] = "d_pyproject"
    /\ CheckOrExit(a, Tree(a).pyproject, "d_manifest")

\* tomllib.load; app_config = bao_config.apps.get(app_name); if not app_config: sys.exit(1)
DeployCheckManifest(a) ==
    /\ pc[a] = "d_manifest"
    /\ CheckOrExit(a, a \in Tree(a).apps, "d_procfile")

\* Mutant: the unit file is opened for writing before the process file is
\* looked for.
DeployCheckProcfileLate(a) ==
    /\ pc[a] = "d_procfile"
    /\ unitFile' = [unitFile EXCEPT ![a] = Truncated]
    /\ IF Tree(a).hasProcfile THEN Goto(a, "d_parse") /\ NoRaise ELSE Raise(a, "SystemExit")
    /\ UNCHANGED <<appDir, repo, hookFile, code, routeFile, unitPtr, routePtr,
                   extVars, exitStatus, localVars, calls, histVars, ops,
                   parseVars, keysVars>>

\* if not (app_code_path / app_config.procfile).exists(): sys.exit(1)
DeployCheckProcfile(a) ==
    /\ pc[a] = "d_procfile"
    /\ CheckOrExit(a, Tree(a).hasProcfile, "d_parse")

\* procfile = parse_procfile(f.read())
DeployParse(a) ==
    /\ pc[a] = "d_parse"
    /\ LET r == parse_procfile(Tree(a).procfile) IN
       IF r.exc = "none"
       THEN /\ web_cmd' = [web_cmd EXCEPT ![a] = r.web_cmd]
            /\ Goto(a, "d_poetry") /\ NoRaise
       ELSE /\ Raise(a, r.exc)
            /\ UNCHANGED web_cmd
    /\ UNCHANGED <<fsVars, extVars, exitStatus, newrev, warned, app_port, calls, histVars, ops,
                   parseVars, keysVars>>

\* subprocess.run(argv, check=True) of a tool that is neither the supervisor
\* nor the proxy: it returns, or raises CalledProcessError on a nonzero exit.
RunChecked(a, next) ==
    /\ \/ Goto(a, next) /\ NoRaise
       \/ Raise(a, "CalledProcessError")
    /\ UNCHANGED <<fsVars, extVars, exitStatus, localVars, calls, histVars, ops,
                   parseVars, keysVars>>

\* Mutant: the supervisor unit is enabled before the dependencies are installed.
DeployPoetryLate(a) ==
    /\ pc[a] = "d_poetry"
    /\ Call(a, "enable")
    /\ \/ Goto(a, "d_python") /\ NoRaise
       \/ Raise(a, "CalledProcessError")
    /\ UNCHANGED <<fsVars, extVars, exitStatus, localVars, histVars, ops,
                   parseVars, keysVars>>

\* poetry install (check=True)
DeployPoetry(a) == pc[a] = "d_poetry" /\ RunChecked(a, "d_python")

\* .venv/bin/python -V (check=True)
DeployPython(a) == pc[a] = "d_python" /\ RunChecked(a, "d_yarn")

\* if package.json exists: yarn install (check=True)
DeployYarn(a) ==
    /\ pc[a] = "d_yarn"
    /\ IF Tree(a).pkgjson
       THEN RunChecked(a, "d_port")
       ELSE /\ Goto(a, "d_port") /\ NoRaise
            /\ UNCHANGED <<fsVars, extVars, exitStatus, localVars, calls, histVars, ops,
                   parseVars, keysVars>>

\* app_port = get_free_port(); web_cmd = web_cmd.replace("$PORT", str(app_port))
DeployPort(a) ==
    /\ pc[a] = "d_port"
    /\ \/ /\ \E p \in FreePorts :
                /\ app_port' = [app_port EXCEPT ![a] = p]
                /\ web_cmd' = [web_cmd EXCEPT ![a] = ReplacePort(@, p)]
          /\ Goto(a, "d_unit_open") /\ NoRaise
       \/ /\ FreePorts = {}
          /\ Raise(a, "OSError")
          /\ UNCHANGED <<app_port, web_cmd>>
    /\ UNCHANGED <<fsVars, extVars, exitStatus, newrev, warned, calls, histVars, ops,
                   parseVars, keysVars>>

\* open(app_service_path, "w"): the file is created or truncated.
DeployOpenUnit(a) ==
    /\ pc[a] = "d_unit_open"
    /\ unitFile' = [unitFile EXCEPT ![a] = Truncated]
    /\ Goto(a, "d_unit_write")
    /\ NoRaise
    /\ UNCHANGED <<appDir, repo, hookFile, code, routeFile, unitPtr, routePtr,
                   extVars, exitStatus, localVars, calls, histVars, ops,
                   parseVars, keysVars>>

\* Mutant: the unit text is still in the writer's buffer when enable runs.
DeployWriteUnitUnflushed(a) ==
    /\ pc[a] = "d_unit_write"
    /\ \/ /\ Goto(a, "d_enable") /\ NoRaise
       \/ /\ Raise(a, "OSError")
    /\ UNCHANGED <<fsVars, extVars, exitStatus, localVars, calls, histVars, ops,
                   parseVars, keysVars>>

\* f.write(systemctl_config) and the close: the text is on disk, or OSError.
DeployWriteUnit(a) ==
    /\ pc[a] = "d_unit_write"
    /\ \/ /\ unitFile' = [unitFile EXCEPT ![a] = get_systemctl_config(web_cmd[a])]
          /\ Goto(a, "d_enable") /\ NoRaise
       \/ /\ Raise(a, "OSError")
          /\ UNCHANGED unitFile
    /\ UNCHANGED <<appDir, repo, hookFile, code, routeFile, unitPtr, routePtr,
                   extVars, exitStatus, localVars, calls, histVars, ops,
                   parseVars, keysVars>>

\* systemctl --user enable <app_service_path> (check=True): links the unit
\* file into the supervisor's scan directory.
DeployEnable(a) ==
    /\ pc[a] = "d_enable"
    /\ Call(a, "enable")
    /\ \/ /\ unitPtr' = [unitPtr EXCEPT ![a] = a]
          /\ Goto(a, "d_route_open") /\ NoRaise
       \/ /\ Raise(a, "CalledProcessError")
          /\ UNCHANGED unitPtr
    /\ UNCHANGED <<appDir, repo, hookFile, code, unitFile, routeFile, routePtr,
                   extVars, exitStatus, localVars, histVars, ops,
                   parseVars, keysVars>>

\* app_caddy_config_path.write_text(...): opens the file for writing ...
DeployOpenRoute(a) ==
    /\ pc[a] = "d_route_open"
    /\ routeFile' = [routeFile EXCEPT ![a] = Truncated]
    /\ Goto(a, "d_route_write")
    /\ NoRaise
    /\ UNCHANGED <<appDir, repo, hookFile, code, unitFile, unitPtr, routePtr,
                   extVars, exitStatus, localVars, calls, histVars, ops,
                   parseVars, keysVars>>

\* ... and writes the route text.
DeployWriteRoute(a) ==
    /\ pc[a] = "d_route_write"
    /\ \/ /\ routeFile' = [routeFile EXCEPT ![a] = get_app_caddyfile_config(Tree(a).domain[a], app_port[a])]
          /\ Goto(a, "d_unlink") /\ NoRaise
       \/ /\ Raise(a, "OSError")
          /\ UNCHANGED routeFile
    /\ UNCHANGED <<appDir, repo, hookFile, code, unitFile, unitPtr, routePtr,
                   extVars, exitStatus, localVars, calls, histVars, ops,
                   parseVars, keysVars>>

\* Mutant: every entry of the proxy's scan directory is unlinked.
DeployUnlinkAll(a) ==
    /\ pc[a] = "d_unlink"
    /\ routePtr' = [n \in Apps |-> NoTarget]
    /\ Goto(a, "d_symlink")
    /\ NoRaise
    /\ UNCHANGED <<appDir, repo, hookFile, code, unitFile, routeFile, unitPtr,
                   extVars, exitStatus, localVars, calls, histVars, ops,
                   parseVars, keysVars>>

\* if (CADDYFILES_PATH / app_name).is_symlink(): unlink()
DeployUnlink(a) ==
    /\ pc[a] = "d_unlink"
    /\ routePtr' = [routePtr EXCEPT ![a] = NoTarget]
    /\ Goto(a, "d_symlink")
    /\ NoRaise
    /\ UNCHANGED <<appDir, repo, hookFile, code, unitFile, routeFile, unitPtr,
                   extVars, exitStatus, localVars, calls, histVars, ops,
                   parseVars, keysVars>>

\* (CADDYFILES_PATH / app_name).symlink_to(app_caddy_config_path)
DeploySymlink(a) ==
    /\ pc[a] = "d_symlink"
    /\ routePtr' = [routePtr EXCEPT ![a] = a]
    /\ Goto(a, "d_reload")
    /\ NoRaise
    /\ UNCHANGED <<appDir, repo, hookFile, code, unitFile, routeFile, unitPtr,
                   extVars, exitStatus, localVars, calls, histVars, ops,
                   parseVars, keysVars>>

\* sudo systemctl reload caddy (check=True): on success the proxy serves the
\* routes its scan directory resolves to; on failure it keeps what it had.
ReloadProxy(a, next) ==
    /\ Call(a, "reload")
    /\ \/ /\ proxyLoaded' = LoadedRoutes
          /\ Goto(a, next) /\ NoRaise
       \/ /\ Raise(a, "CalledProcessError")
          /\ UNCHANGED proxyLoaded
    /\ UNCHANGED <<fsVars, running, bound, exitStatus, localVars, histVars, ops,
                   parseVars, keysVars>>

DeployReload(a) == pc[a] = "d_reload" /\ ReloadProxy(a, "d_restart")

\* systemctl --user restart <app> (check=True): on success the supervisor has
\* replaced the instance by one started from the linked unit file; on failure
\* the old instance is still there or has been stopped.
DeployRestart(a) ==
    /\ pc[a] = "d_restart"
    /\ Call(a, "restart")
    /\ \/ /\ LinkedUnit(a).st = "full"
          /\ running' = [running EXCEPT ![a] = ListenPort(LinkedUnit(a).cmd)]
          /\ bound' = [bound EXCEPT ![a] = FALSE]
          /\ Goto(a, "return") /\ NoRaise
       \/ /\ Raise(a, "CalledProcessError")
          /\ \/ UNCHANGED <<running, bound>>
             \/ /\ running' = [running EXCEPT ![a] = NoPort]
                /\ bound' = [bound EXCEPT ![a] = FALSE]
    /\ UNCHANGED <<fsVars, proxyLoaded, exitStatus, localVars, histVars, ops,
                   parseVars, keysVars>>

\* ------------------------------------------------------------ remove_app
StartDel(a) == Start(a, "del", "r_stop")

\* Mutant: remove_app returns at once when the supervisor has no such unit.
RemoveStopTolerant(a) ==
    /\ pc[a] = "r_stop"
    /\ Call(a, "stop")
    /\ IF unitPtr[a] = NoTarget
       THEN /\ Goto(a, "return") /\ NoRaise
            /\ UNCHANGED <<running, bound>>
       ELSE /\ running' = [running EXCEPT ![a] = NoPort]
            /\ bound' = [bound EXCEPT ![a] = FALSE]
            /\ Goto(a, "r_disable") /\ NoRaise
    /\ UNCHANGED <<fsVars, proxyLoaded, exitStatus, localVars, histVars, ops,
                   parseVars, keysVars>>

\* systemctl --user stop <app>.service (check=True): fails when the
\* supervisor has no such unit.
RemoveStop(a) ==
    /\ pc[a] = "r_stop"
    /\ Call(a, "stop")
    /\ \/ /\ unitPtr[a] # NoTarget
          /\ running' = [running EXCEPT ![a] = NoPort]
          /\ bound' = [bound EXCEPT ![a] = FALSE]
          /\ Goto(a, "r_disable") /\ NoRaise
       \/ /\ Raise(a, "CalledProcessError")
          /\ UNCHANGED <<running, bound>>
    /\ UNCHANGED <<fsVars, proxyLoaded, exitStatus, localVars, histVars, ops,
                   parseVars, keysVars>>

\* systemctl --user disable <app>.service (check=True): removes the links to
\* the unit file from the supervisor's scan directory.
RemoveDisable(a) ==
    /\ pc[a] = "r_disable"
    /\ Call(a, "disable")
    /\ \/ /\ unitPtr[a] # NoTarget
          /\ unitPtr' = [unitPtr EXCEPT ![a] = NoTarget]
          /\ Goto(a, "r_reload") /\ NoRaise
       \/ /\ Raise(a, "CalledProcessError")
          /\ UNCHANGED unitPtr
    /\ UNCHANGED <<appDir, repo, hookFile, code, unitFile, routeFile, routePtr,
                   extVars, exitStatus, localVars, histVars, ops,
                   parseVars, keysVars>>

\* sudo systemctl reload caddy (check=True)
RemoveReload(a) == pc[a] = "r_reload" /\ ReloadProxy(a, "r_rmtree")

\* shutil.rmtree(app_path): FileNotFoundError when there is no such directory.
RemoveRmtree(a) ==
    /\ pc[a] = "r_rmtree"
    /\ IF appDir[a]
       THEN /\ appDir' = [appDir EXCEPT ![a] = FALSE]
            /\ repo' = [repo EXCEPT ![a] = FALSE]
            /\ hookFile' = [hookFile EXCEPT ![a] = FALSE]
            /\ code' = [code EXCEPT ![a] = NoRev]
            /\ unitFile' = [unitFile EXCEPT ![a] = NoFile]
            /\ routeFile' = [routeFile EXCEPT ![a] = NoFile]
            /\ Goto(a, "r_unlink_unit") /\ NoRaise
       ELSE /\ Raise(a, "FileNotFoundError")
            /\ UNCHANGED <<appDir, repo, hookFile, code, unitFile, routeFile>>
    /\ UNCHANGED <<unitPtr, routePtr, extVars, exitStatus, localVars, calls, histVars, ops,
                   parseVars, keysVars>>

\* file = SYSTEMDFILES_PATH / "<app>.service": if file.is_file(): file.unlink()
RemoveUnlinkUnit(a) ==
    /\ pc[a] = "r_unlink_unit"
    /\ unitPtr' = IF IsFile(unitPtr[a], unitFile)
                  THEN [unitPtr EXCEPT ![a] = NoTarget] ELSE unitPtr
    /\ Goto(a, "r_unlink_route")
    /\ NoRaise
    /\ UNCHANGED <<appDir, repo, hookFile, code, unitFile, routeFile, routePtr,
                   extVars, exitStatus, localVars, calls, histVars, ops,
                   parseVars, keysVars>>

\* file = CADDYFILES_PATH / <app>: if file.is_file(): file.unlink()
RemoveUnlinkRoute(a) ==
    /\ pc[a] = "r_unlink_route"
    /\ routePtr' = IF IsFile(routePtr[a], routeFile)
                   THEN [routePtr EXCEPT ![a] = NoTarget] ELSE routePtr
    /\ Goto(a, "return")
    /\ NoRaise
    /\ UNCHANGED <<appDir, repo, hookFile, code, unitFile, routeFile, unitPtr,
                   extVars, exitStatus, localVars, calls, histVars, ops,
                   parseVars, keysVars>>

\* ----------------------------------------------------------- environment
\* The instance the supervisor started binds the port of its command line.
ServiceBinds(a) ==
    /\ running[a] # NoPort
    /\ ~bound[a]
    /\ running[a] \in FreePorts
    /\ bound' = [bound EXCEPT ![a] = TRUE]
    /\ UNCHANGED <<fsVars, running, proxyLoaded, pc, raised, failedAt, exitStatus,
                   localVars, calls, histVars, ops,
                   parseVars, keysVars>>

\* ------------------------------------------------------------ specification
\* One statement of the app's invocation past the hook's read of its input,
\* or a step of its environment.
OtherStep(a) ==
    \/ StartReceivePack(a)
    \/ ReceivePackMkdir(a)
    \/ ReceivePackInit(a)
    \/ ReceivePackHook(a)
    \/ ReceivePackRun(a)
    \/ StartGitHook(a)
    \/ HookClone(a)
    \/ HookFetch(a)
    \/ HookReset(a)
    \/ DeployCheckBao(a)
    \/ DeployCheckPyproject(a)
    \/ DeployCheckManifest(a)
    \/ DeployCheckProcfile(a)
    \/ DeployParse(a)
    \/ DeployPoetry(a)
    \/ DeployPython(a)
    \/ DeployYarn(a)
    \/ DeployPort(a)
    \/ DeployOpenUnit(a)
    \/ DeployWriteUnit(a)
    \/ DeployEnable(a)
    \/ DeployOpenRoute(a)
    \/ DeployWriteRoute(a)
    \/ DeployUnlink(a)
    \/ DeploySymlink(a)
    \/ DeployReload(a)
    \/ DeployRestart(a)
    \/ StartDel(a)
    \/ RemoveStop(a)
    \/ RemoveDisable(a)
    \/ RemoveReload(a)
    \/ RemoveRmtree(a)
    \/ RemoveUnlinkUnit(a)
    \/ RemoveUnlinkRoute(a)
    \/ MainReturn(a)
    \/ MainExcept(a)
    \/ Reap(a)
    \/ ServiceBinds(a)

Step(a) == HookReadStdin(a) \/ OtherStep(a)

\* Invocations for all apps, interleaved statement by statement.
Next == \E a \in Apps : Step(a)

Spec == Init /\ [][Next]_vars

\* Invocations for one app, one after the other.
SoloNext == Step("a")

SpecSolo == Init /\ [][SoloNext]_vars

\* Invocations for all apps, interleaved statement by statement, every push
\* being one ref update to a revision that passes the checks of deploy_app.
PairRevs == {1}
PairNext == \E a \in Apps : HookReadStdinFrom(a, {1}, PairRevs) \/ OtherStep(a)

SpecPair == Init /\ [][PairNext]_vars

\* ------------------------------------------- parse_procfile called directly
\* The lines a process declaration is drawn from.
MaxProcLines == 3
ProcLines ==
    { <<"web:", "python", "app.py", "$PORT">>,
      <<"web:", "python", "api.py", "$PORT">>,
      <<"web:", "node", "app.js", "$PORT">>,
      <<"web:", "python", "app.py">>,
      <<"web:">>,
      <<"worker:", "python", "job.py">>,
      << >> }

Contents == UNION {[1..n -> ProcLines] : n \in 0..MaxProcLines}

ParseInit ==
    /\ HostInit
    /\ procText \in Contents /\ procfile = NotParsed
    /\ authorized_keys = << >> /\ keysLog = << >>

\* procfile = parse_procfile(content)
ParseCall ==
    /\ procfile = NotParsed
    /\ procfile' = parse_procfile(procText)
    /\ UNCHANGED <<procText, keysVars, fsVars, extVars, pc, raised, failedAt, exitStatus,
                   localVars, calls, histVars, ops>>

ParseNext == ParseCall

ParseSpec == ParseInit /\ [][ParseNext]_vars

\* --------------------------------------------- init_ssh_access called directly
\* The text of authorized_keys is a sequence of pieces: a public key, a
\* comment, blanks, and the line terminator.
NL == "\n"
Blank == " "
KeyTokens == {"ssh-ed25519 AAAA admin@host"}
TextTokens == KeyTokens \cup {"# admins", Blank, NL}
MaxKeyText == 4
MaxRuns == 2
KeyTexts == UNION {[1..n -> TextTokens] : n \in 0..MaxKeyText}

\* str.splitlines(): the lines without their terminators; a terminator at the
\* end of the text does not begin another line.
RECURSIVE SplitFrom(_, _)
SplitFrom(text, line) ==
    IF text = << >> THEN (IF line = << >> THEN << >> ELSE << line >>)
    ELSE IF Head(text) = NL THEN << line >> \o SplitFrom(Tail(text), << >>)
    ELSE SplitFrom(Tail(text), Append(line, Head(text)))

splitlines(text) == SplitFrom(text, << >>)

\* line.startswith("ssh-")
StartsWithSsh(line) == Len(line) > 0 /\ line[1] \in KeyTokens

\* line.strip()
RECURSIVE strip(_)
strip(line) ==
    IF line = << >> THEN line
    ELSE IF Head(line) = Blank THEN strip(Tail(line))
    ELSE IF line[Len(line)] = Blank THEN strip(SubSeq(line, 1, Len(line) - 1))
    ELSE line

\* AUTHORIZED_KEYS_TEMPLATE up to {pubkey}; the template ends with "\n".
ForcedCommand == "command=\"bao.py $SSH_ORIGINAL_COMMAND\",no-agent-forwarding,no-user-rc,no-X11-forwarding,no-port-forwarding "

\* What the loop body writes to new_authorized_keys for one line.
WriteLine(line) ==
    IF ~StartsWithSsh(line) THEN line
    ELSE << ForcedCommand >> \o strip(line) \o << NL >>

RECURSIVE WriteLines(_)
WriteLines(lines) ==
    IF lines = << >> THEN << >>
    ELSE WriteLine(Head(lines)) \o WriteLines(Tail(lines))

KeysInit ==
    /\ HostInit
    /\ procText = << >> /\ procfile = NotParsed
    /\ authorized_keys \in KeyTexts /\ keysLog = << >>

\* init_ssh_access(): reads the file, rewrites it line by line, writes it back.
init_ssh_access ==
    /\ Len(keysLog) < MaxRuns
    /\ authorized_keys' = WriteLines(splitlines(authorized_keys))
    /\ keysLog' = Append(keysLog, authorized_keys)
    /\ UNCHANGED <<parseVars, fsVars, extVars, pc, raised, failedAt, exitStatus,
                   localVars, calls, histVars, ops>>

KeysNext == init_ssh_access

KeysSpec == KeysInit /\ [][KeysNext]_vars

\* ------------------------------------------------------ lifecycle states
\* Section 4.5 of the design: Absent, Registered, Deployed, read off a record
\* of the app's state (StateOf(a), or the snapshot pre[a]).
AbsentIn(st) ==
    /\ ~st.appDir /\ ~st.repo /\ st.code = NoRev
    /\ st.unitFile = NoFile /\ st.routeFile = NoFile
    /\ st.unitPtr = NoTarget /\ st.routePtr = NoTarget
    /\ st.running = NoPort

RegisteredIn(st) ==
    /\ st.appDir /\ st.repo
    /\ st.unitPtr = NoTarget /\ st.routePtr = NoTarget
    /\ st.running = NoPort

DeployedIn(a, st) ==
    /\ st.appDir
    /\ st.unitPtr = a /\ st.unitFile.st = "full"
    /\ st.routePtr = a /\ st.routeFile.st = "full"
    /\ st.running # NoPort
    /\ st.running = ListenPort(st.unitFile.cmd)
    /\ st.running = st.routeFile.port
    /\ st.proxyLoaded = st.running

\* The unit file, the route file and the two scan-directory pointers of the
\* app are what they were when the invocation began.
UnitAndRouteUntouched(a) ==
    /\ unitFile[a] = pre[a].unitFile
    /\ routeFile[a] = pre[a].routeFile
    /\ unitPtr[a] = pre[a].unitPtr
    /\ routePtr[a] = pre[a].routePtr

\* Nothing of the app on disk is what it was not when the invocation began.
FilesystemUntouched(a) ==
    /\ UnitAndRouteUntouched(a)
    /\ appDir[a] = pre[a].appDir
    /\ repo[a] = pre[a].repo
    /\ code[a] = pre[a].code

\* ------------------------------------------------------------------ claims

\* C1: when the Config Parser stage of deploy fails (bao.toml or
\* pyproject.toml missing, app not in the manifest, process file missing,
\* invalid web command), and at every statement of that stage, no unit file,
\* route file or scan-directory pointer has been created or modified and no
\* supervisor or proxy command has been invoked.
C1_ValidationPrecedesMutation ==
    \A a \in Apps :
        (pc[a] \in ConfigStage \/ failedAt[a] \in ConfigStage) =>
            /\ UnitAndRouteUntouched(a)
            /\ calls[a] = << >>
            /\ running[a] = pre[a].running
            /\ proxyLoaded[a] = pre[a].proxyLoaded

\* C1 witness: a redeploy of a deployed app has ended on an invalid web command.
C1_Witness ==
    \E a \in Apps :
        /\ Finished(a) /\ failedAt[a] = "d_parse" /\ raised[a] = "SystemExit"
        /\ DeployedIn(a, pre[a])

\* C2 (as claimed): after a redeploy of a Deployed app that failed at any one
\* step, the route the proxy has loaded for the app targets a port on which an
\* instance of the app is running.
C2_FailedRedeployKeepsRouteLive ==
    \A a \in Apps :
        (Finished(a) /\ cmd[a] = "git-hook" /\ raised[a] # "none"
         /\ DeployedIn(a, pre[a])) =>
            /\ proxyLoaded[a] # NoPort
            /\ proxyLoaded[a] = running[a]

\* C3 (as claimed): in every state, each pointer in a scan directory resolves
\* to an existing, fully written file.
C3_PointerTargetsWritten ==
    \A a \in Apps :
        /\ unitPtr[a] # NoTarget => unitFile[unitPtr[a]].st = "full"
        /\ routePtr[a] # NoTarget => routeFile[routePtr[a]].st = "full"

\* C4: when the Environment Provisioner stage of deploy fails (poetry install,
\* the interpreter check or yarn install exits nonzero), and at every
\* statement of that stage, no unit or route file has been written, no pointer
\* changed and no supervisor or proxy command run; an app that was Deployed
\* when the deploy began is still Deployed, served on the same port.
C4_ProvisionFailureLeavesDeployment ==
    \A a \in Apps :
        (pc[a] \in ProvisionStage \/ failedAt[a] \in ProvisionStage) =>
            /\ UnitAndRouteUntouched(a)
            /\ calls[a] = << >>
            /\ DeployedIn(a, pre[a]) =>
                  (DeployedIn(a, StateOf(a)) /\ running[a] = pre[a].running)

\* C4 witness: a redeploy of a deployed app has ended on a failed yarn install.
C4_Witness ==
    \E a \in Apps :
        /\ Finished(a) /\ failedAt[a] = "d_yarn" /\ raised[a] = "CalledProcessError"
        /\ DeployedIn(a, pre[a])

\* C5 (as claimed): after a remove of a Deployed app that returned without an
\* error the app is Absent: directory deleted, unit stopped and disabled, no
\* pointer for the app left in either scan directory.
C5_RemoveDeployedLeavesAbsent ==
    \A a \in Apps :
        (Finished(a) /\ cmd[a] = "del" /\ raised[a] = "none"
         /\ DeployedIn(a, pre[a])) =>
            AbsentIn(StateOf(a))

\* Deploy has just run to its end on the tree the previous deployment was
\* made from.
RedeployedUnchanged(a) ==
    /\ Finished(a) /\ cmd[a] = "git-hook" /\ raised[a] = "none"
    /\ DeployedIn(a, pre[a])
    /\ code[a] = pre[a].code

\* Exactly one scan-directory entry of each kind resolves to the app's files.
OneUnitOneRoute(a) ==
    /\ Cardinality({n \in Apps : unitPtr[n] = a}) = 1
    /\ Cardinality({n \in Apps : routePtr[n] = a}) = 1

\* C6 (as claimed): a second deploy on an unchanged tree allocates a port
\* different from the first deploy's and ends Deployed with exactly one
\* active unit and one active route.
C6_RedeployDifferentPort ==
    \A a \in Apps :
        RedeployedUnchanged(a) =>
            /\ app_port[a] # pre[a].running
            /\ DeployedIn(a, StateOf(a))
            /\ OneUnitOneRoute(a)

\* C6 (amended): a second deploy on an unchanged tree ends Deployed on the
\* port it allocated, with exactly one active unit and one active route; the
\* port it allocates differs from the first deploy's whenever the first
\* deploy's instance has bound its port at the time of the allocation.
C6_RedeployDeployedFreshPort ==
    /\ [](\A a \in Apps :
            RedeployedUnchanged(a) =>
                /\ DeployedIn(a, StateOf(a))
                /\ running[a] = app_port[a]
                /\ OneUnitOneRoute(a))
    /\ [][\A a \in Apps :
            (pc[a] = "d_port" /\ pc'[a] = "d_unit_open" /\ bound[a]) =>
                app_port'[a] # running[a]]_vars

\* C6 witness: a second deploy on an unchanged tree has ended on another port.
C6_Witness ==
    \E a \in Apps : RedeployedUnchanged(a) /\ app_port[a] # pre[a].running

\* C7 (as claimed): a command that ended on an unhandled exception exits
\* with a non-zero status.
C7_FailureExitsNonZero ==
    \A a \in Apps : (Finished(a) /\ raised[a] # "none") => exitStatus[a] # 0

\* C8 (as claimed): remove runs every sub-step whether or not an earlier one
\* failed: the three control commands, the deletion of the app directory and
\* the removal of the pointers.
C8_RemoveBestEffort ==
    \A a \in Apps :
        (Finished(a) /\ cmd[a] = "del" /\ pre[a].appDir) =>
            /\ calls[a] = <<"stop", "disable", "reload">>
            /\ ~appDir[a]

\* C9: remove of an app that is Absent never returns normally, it ends on an
\* error, and at every statement the app's directory, files and pointers
\* are what they were: none.
C9_RemoveAbsentFails ==
    \A a \in Apps :
        (cmd[a] = "del" /\ AbsentIn(pre[a])) =>
            /\ FilesystemUntouched(a)
            /\ pc[a] # "return"
            /\ Finished(a) => raised[a] \in {"CalledProcessError", "FileNotFoundError"}

\* C9 witness: a remove of an Absent app has ended.
C9_Witness ==
    \E a \in Apps :
        /\ Finished(a) /\ cmd[a] = "del" /\ AbsentIn(pre[a])
        /\ raised[a] = "CalledProcessError"

\* C10 (as claimed): a remove of a Registered app (pushed to, no unit
\* registered) leaves the app Absent.
C10_RemoveRegisteredLeavesAbsent ==
    \A a \in Apps :
        (Finished(a) /\ cmd[a] = "del" /\ RegisteredIn(pre[a])) =>
            AbsentIn(StateOf(a))

\* The deploy of the app's push has returned without an exception.
DeploySucceeded(a) == Finished(a) /\ cmd[a] = "git-hook" /\ raised[a] = "none"

\* C11: after a successful deploy the unit file's ExecStart carries the same
\* port N as the route file's reverse_proxy localhost:N, the route file names
\* the domain the manifest of the deployed tree gives the app, and the route pointer
\* of the app resolves to that route file.
C11_UnitAndRouteAgree ==
    \A a \in Apps :
        DeploySucceeded(a) =>
            /\ unitFile[a].st = "full" /\ routeFile[a].st = "full"
            /\ app_port[a] \in Ports
            /\ ListenPort(unitFile[a].cmd) = app_port[a]
            /\ routeFile[a].port = app_port[a]
            /\ routeFile[a].domain = Tree(a).domain[a]
            /\ routePtr[a] = a /\ IsFile(routePtr[a], routeFile)

\* A push that moved the app to another domain has been deployed over a
\* deployment under the first domain.
C11_Witness ==
    \E a \in Apps :
        /\ DeploySucceeded(a)
        /\ pre[a].routeFile.st = "full"
        /\ pre[a].routeFile.domain # routeFile[a].domain

\* Positions of the lines of the parsed text that start with "web:".
WebLines == {i \in DOMAIN procText : StartsWithWeb(procText[i])}
Parsed == procfile # NotParsed

\* C12: for every process declaration with no line starting with web:,
\* parse_procfile fails with the validation failure (the sys.exit(1) of an
\* invalid web command), not with a crash.
C12_NoWebLineIsValidationFailure ==
    (Parsed /\ WebLines = {}) => procfile.exc = "SystemExit"

\* C13: with one or more web: lines the parse result, accepted command or
\* failure, is the result of parsing the last web: line alone.
C13_LastWebLineWins ==
    (Parsed /\ WebLines # {}) =>
        LET last == CHOOSE i \in WebLines : \A j \in WebLines : j <= i IN
        procfile = parse_procfile(<< procText[last] >>)

\* A text with several web: lines has been parsed, and its first web: line
\* alone parses to something else than the whole text did.
C13_Witness ==
    /\ Parsed /\ Cardinality(WebLines) >= 2
    /\ LET first == CHOOSE i \in WebLines : \A j \in WebLines : i <= j IN
       procfile # parse_procfile(<< procText[first] >>)

\* The steps of a deploy, told by what they do.
Deploying(a) == cmd[a] = "git-hook"
Invoking(a, name) == Deploying(a) /\ calls'[a] = Append(calls[a], name)
WritingRoute(a) == Deploying(a) /\ routeFile'[a] # routeFile[a]
ReplacingPointer(a) == Deploying(a) /\ routePtr[a] # a /\ routePtr'[a] = a
\* The files of this deploy are on disk in the app's own directory.
UnitWritten(a) ==
    app_port[a] \in Ports /\ unitFile[a] = get_systemctl_config(web_cmd[a])
RouteWritten(a) ==
    app_port[a] \in Ports
    /\ routeFile[a] = get_app_caddyfile_config(Tree(a).domain[a], app_port[a])

\* From the pointer replacement on: the pointer is replaced once the route
\* file is written, then the proxy is reloaded, then the service restarted,
\* and nothing of the app on disk changes after the restart.
PointerReloadRestartOrder(a) ==
    /\ ReplacingPointer(a) => RouteWritten(a) /\ calls[a] = <<"enable">>
    /\ Invoking(a, "reload") =>
           routePtr[a] = a /\ RouteWritten(a) /\ calls[a] = <<"enable">>
    /\ Invoking(a, "restart") => calls[a] = <<"enable", "reload">>
    /\ (Deploying(a) /\ "restart" \in Range(calls[a])) =>
           /\ unitFile'[a] = unitFile[a] /\ routeFile'[a] = routeFile[a]
           /\ unitPtr'[a] = unitPtr[a] /\ routePtr'[a] = routePtr[a]
           /\ calls'[a] \in {calls[a], << >>}

\* C14 as stated: within one deploy both the unit file and the route file are
\* written before the supervisor enable is invoked, then the route pointer is
\* replaced, then the proxy reloaded, then the service restarted.
C14_BothFilesBeforeEnable ==
    \A a \in Apps :
        Deploying(a) =>
            /\ "enable" \in Range(calls[a]) => UnitWritten(a) /\ RouteWritten(a)
            /\ "reload" \in Range(calls[a]) => routePtr[a] = a
            /\ calls[a] \in {<< >>, <<"enable">>, <<"enable", "reload">>,
                             <<"enable", "reload", "restart">>}

\* C14 (amended): within one deploy the unit file is written before the
\* supervisor enable is invoked; the route file is written after the enable
\* and before the route pointer is replaced; then the proxy is reloaded; then
\* the service is restarted, which is the last step.
C14_DeployStepOrder ==
    [][\A a \in Apps :
          /\ Invoking(a, "enable") => UnitWritten(a) /\ calls[a] = << >>
          /\ WritingRoute(a) => calls[a] = <<"enable">>
          /\ PointerReloadRestartOrder(a)]_vars

\* A deploy has run through all of its steps.
C14_Witness ==
    \E a \in Apps :
        /\ pc[a] = "return" /\ Deploying(a)
        /\ calls[a] = <<"enable", "reload", "restart">>
        /\ UnitWritten(a) /\ RouteWritten(a) /\ routePtr[a] = a

\* C15: a route file written by an in-flight deploy does not take effect by
\* being written: between the route write and the deploy's own pointer
\* replacement the proxy has not loaded the new route, whatever reloads other
\* apps' commands run meanwhile.  (The new route is told from the old one by
\* its port.)
C15_RouteInertUntilPointed ==
    \A a \in Apps :
        ( /\ Deploying(a) /\ pc[a] \in {"d_unlink", "d_symlink"}
          /\ pre[a].routeFile.port # app_port[a]
          /\ pre[a].proxyLoaded # app_port[a] )
        => proxyLoaded[a] # app_port[a]

\* C16: the proxy reload comes before the service restart, which is last: at
\* the step where the reload fails during the redeploy of a Deployed app, the
\* restart has not been and is not invoked, and the previous instance, still
\* on its old port, is the one the proxy routes to.
C16_FailedReloadKeepsOldInstance ==
    [][\A a \in Apps :
          ( /\ Deploying(a) /\ DeployedIn(a, pre[a])
            /\ pc[a] = "d_reload" /\ pc'[a] = "except" ) =>
              /\ calls'[a] = <<"enable", "reload">>
              /\ running'[a] = pre[a].running
              /\ proxyLoaded'[a] = running'[a]]_vars

\* C17: whenever the post-receive hook invokes deploy for an app, the app's
\* working tree is at exactly newrev.
C17_DeployRunsOnNewrev ==
    \A a \in Apps :
        (Deploying(a) /\ pc[a] = "d_bao") => code[a] = newrev[a]

\* C18: in the post-receive hook, input of more or fewer than one line, zero
\* lines included, is logged as unhandled and does not make the hook fail.
C18_LineCountNotFatal ==
    \A a \in Apps :
        (Deploying(a) /\ warned[a]) => failedAt[a] # "h_stdin"

\* What app b owns by name: its directory with what is in it, and its entry in
\* each of the two scan directories.
EntriesOf(b) ==
    <<appDir[b], repo[b], hookFile[b], code[b], unitFile[b], routeFile[b],
      unitPtr[b], routePtr[b]>>

\* C19: a statement of a command for app a (push, deploy or remove) leaves
\* every other app b's directory, unit file, route file and both scan-directory
\* pointers as they are, in every interleaving.
C19_OtherAppsUntouched ==
    [][\A a \in Apps :
          pc'[a] # pc[a] => \A b \in Apps \ {a} : EntriesOf(b)' = EntriesOf(b)]_vars

\* An app is Deployed with no command of its own running, and the remove of
\* another app, deployed before, has run to its end.
C19_Witness ==
    \E a \in Apps : \E b \in Apps \ {a} :
        /\ DeployedIn(b, StateOf(b)) /\ pc[b] = "idle"
        /\ cmd[a] = "del" /\ pc[a] = "return" /\ ~appDir[a]

\* C20: the rewrite of authorized_keys by init is line-preserving and
\* idempotent: a run turns every public-key line into one forced-command line,
\* keeps every other line as its own line and keeps the number of lines; a
\* second run leaves the file as the first run wrote it.
C20_RewriteKeepsLinesAndIsIdempotent ==
    /\ Len(keysLog) >= 1 =>
         LET read == splitlines(keysLog[Len(keysLog)])
             written == splitlines(authorized_keys) IN
         /\ Len(written) = Len(read)
         /\ \A i \in DOMAIN read :
               i \in DOMAIN written /\
               written[i] = IF StartsWithSsh(read[i])
                            THEN << ForcedCommand >> \o strip(read[i])
                            ELSE read[i]
    /\ Len(keysLog) >= 2 => authorized_keys = keysLog[2]

====
